---- MODULE Spec2Model ----
(***************************************************************************)
(* A model of labelme/label_file.py: LabelFile.load, LabelFile.save and    *)
(* their helpers, with the file system they read and write.                *)
(*                                                                         *)
(* Python values:                                                          *)
(*   None            the record None                                       *)
(*   int n           IntV(n)                                               *)
(*   str             StrV(the sequence of its characters); base64 text is  *)
(*                   B64Encode(bytes).val; a file name is FileName(path)   *)
(*   bytes           Png(h, w), Jpeg(h, w) (an encoded image), RawBytes    *)
(*   dict            a function from keys to values, {} the empty function *)
(*   list            a sequence                                            *)
(*   numpy array     NdArray(h, w)                                         *)
(* Every value is a record, and records of different kinds differ in their *)
(* field names, so that any two values can be compared.  A call's result   *)
(* is Ok(value) or Raise(exception name).                                  *)
(***************************************************************************)
EXTENDS Integers, Sequences, FiniteSets, TLC

VARIABLES disk, dirs, rec, outcome, budget, calls

vars == <<disk, dirs, rec, outcome, budget, calls>>

----------------------------------------------------------------------------
(* Values *)

None == [t |-> "None"]

IntV(n) == [t |-> "int", n |-> n]

StrV(s) == [t |-> "str", s |-> s]

EmptyDict == <<>>

Png(h, w) == [t |-> "bytes", fmt |-> "PNG", h |-> h, w |-> w]

Jpeg(h, w) == [t |-> "bytes", fmt |-> "JPEG", h |-> h, w |-> w]

RawBytes == [t |-> "bytes", fmt |-> "raw"]

NdArray(h, w) == [t |-> "ndarray", h |-> h, w |-> w]

Ok(v) == [ok |-> TRUE, val |-> v]

Raise(e) == [ok |-> FALSE, exc |-> e]

\* dict.get(key, default)
Get(d, k, default) == IF k \in DOMAIN d THEN d[k] ELSE default

\* d[key] = value on a dict
Put(d, k, v) == [x \in DOMAIN d \cup {k} |-> IF x = k THEN v ELSE d[x]]

\* {k: v for k, v in d.items() if k not in keys}
Without(d, keys) == [x \in DOMAIN d \ keys |-> d[x]]

\* Python truthiness of the values that reach an `or` / `if` in this file
Truthy(v) == v # None /\ v # EmptyDict /\ v # IntV(0)

----------------------------------------------------------------------------
(* Text, as sequences of characters *)

s_labeled == <<"_", "l", "a", "b", "e", "l", "e", "d">>

s_labeled_formatted == <<"_", "l", "a", "b", "e", "l", "e", "d", "_", "f", "o", "r", "m", "a", "t", "t", "e", "d">>

s_unknown == <<"u", "n", "k", "n", "o", "w", "n">>

s_None == <<"N", "o", "n", "e">>

s_id == <<"i", "d", "_">>

s_root == <<"r", "o", "o", "t">>

s_d == <<"d">>

s_a_json == <<"a", ".", "j", "s", "o", "n">>

s_b_json == <<"b", ".", "j", "s", "o", "n">>

s_gone_json == <<"g", "o", "n", "e", ".", "j", "s", "o", "n">>

s_img_png == <<"i", "m", "g", ".", "p", "n", "g">>

s_rot_JPG == <<"r", "o", "t", ".", "J", "P", "G">>

s_gone_png == <<"g", "o", "n", "e", ".", "p", "n", "g">>

s_polygon == <<"p", "o", "l", "y", "g", "o", "n">>

s_rectangle == <<"r", "e", "c", "t", "a", "n", "g", "l", "e">>

s_cat == <<"c", "a", "t">>

s_dog == <<"d", "o", "g">>

s_kept == <<"k", "e", "p", "t">>

s_abc == <<"a", "b", "c">>

s_version == <<"5", ".", "5", ".", "0">>

s_png == <<".", "p", "n", "g">>

s_jpg == <<".", "j", "p", "g">>

s_jpeg == <<".", "j", "p", "e", "g">>

Digits == <<"0", "1", "2", "3", "4", "5", "6", "7", "8", "9">>

\* the last index of character c in s, 0 when there is none (str.rfind, 1-based)
RECURSIVE RFind(_, _)
RFind(s, c) ==
    IF s = <<>> THEN 0
    ELSE IF s[Len(s)] = c THEN Len(s)
    ELSE RFind(SubSeq(s, 1, Len(s) - 1), c)

\* the first index of character c in s, 0 when there is none
RECURSIVE Find(_, _)
Find(s, c) ==
    IF s = <<>> THEN 0
    ELSE IF Head(s) = c THEN 1
    ELSE LET r == Find(Tail(s), c) IN IF r = 0 THEN 0 ELSE r + 1

\* str.split(sep) for a one-character sep: every occurrence splits, empty
\* pieces are kept, and the result is never empty
RECURSIVE Split(_, _)
Split(s, sep) ==
    LET i == Find(s, sep) IN
    IF i = 0 THEN <<s>>
    ELSE <<SubSeq(s, 1, i - 1)>> \o Split(SubSeq(s, i + 1, Len(s)), sep)

\* str.lower() on the letters the model's file names use
LowerChar(c) ==
    CASE c = "J" -> "j"
      [] c = "P" -> "p"
      [] c = "G" -> "g"
      [] c = "E" -> "e"
      [] c = "N" -> "n"
      [] OTHER -> c

Lower(s) == [i \in 1..Len(s) |-> LowerChar(s[i])]

\* str(n) for an int
RECURSIVE NatToStr(_)
NatToStr(n) ==
    IF n < 10 THEN <<Digits[n + 1]>>
    ELSE NatToStr(n \div 10) \o <<Digits[(n % 10) + 1]>>

IntToStr(n) == IF n < 0 THEN <<"-">> \o NatToStr(-n) ELSE NatToStr(n)

\* str(v) for the values a group id takes: None or an int
ToStr(v) == IF v = None THEN s_None ELSE IntToStr(v.n)

\* str.zfill(width): zeros on the left, after a leading sign
ZFill(s, width) ==
    LET pad == [i \in 1..(width - Len(s)) |-> "0"] IN
    IF Len(s) >= width THEN s
    ELSE IF s # <<>> /\ s[1] \in {"+", "-"} THEN <<s[1]>> \o pad \o Tail(s)
    ELSE pad \o s

----------------------------------------------------------------------------
(* os.path on POSIX paths.  A path is the sequence of its components, so   *)
(* dirname drops the last one, basename is the last one and join appends.  *)
(* splitext works inside one component.                                    *)

dirname(p) == SubSeq(p, 1, Len(p) - 1)

basename(p) == p[Len(p)]

join(dir, name) == Append(dir, name)

\* genericpath._splitext on a path without separators: the extension starts
\* at the last dot unless only dots come before it
splitext(name) ==
    LET dotIndex == RFind(name, ".") IN
    IF dotIndex > 0 /\ \E i \in 1..(dotIndex - 1) : name[i] # "."
    THEN <<SubSeq(name, 1, dotIndex - 1), SubSeq(name, dotIndex, Len(name))>>
    ELSE <<name, <<>>>>

----------------------------------------------------------------------------
(* Codecs *)

\* base64.b64encode(b).decode("utf-8"): only bytes can be encoded
B64Encode(b) == IF b.t = "bytes" THEN Ok([t |-> "str", b64 |-> b]) ELSE Raise("TypeError")

\* base64.b64decode(s): text that is not padded base64 raises
B64Decode(s) ==
    IF s.t # "str" THEN Raise("TypeError")
    ELSE IF "b64" \in DOMAIN s THEN Ok(s.b64)
    ELSE Raise("binascii.Error")

\* utils.img_b64_to_arr: base64 text -> bytes -> decoded image -> array
ImgB64ToArr(s) ==
    LET b == B64Decode(s) IN
    IF ~b.ok THEN b
    ELSE IF b.val.fmt = "raw" THEN Raise("UnidentifiedImageError")
    ELSE Ok(NdArray(b.val.h, b.val.w))

\* utils.apply_exif_orientation: a quarter turn swaps height and width
ApplyExifOrientation(img) ==
    IF img.orient = "rot90" THEN [h |-> img.w, w |-> img.h, orient |-> "normal"]
    ELSE img

\* json.dump accepts dict, list, str, int, bool and None; a numpy array or
\* bytes anywhere in the value raises TypeError after the file was opened
Serializable(data) ==
    /\ \A i \in 1..Len(data.shapes) :
           "mask" \in DOMAIN data.shapes[i] => data.shapes[i].mask.t # "ndarray"
    /\ data.imageData.t # "bytes"

----------------------------------------------------------------------------
(* The files the model's programs find *)

RootDir == <<s_root>>

LabelDir == <<s_root, s_d>>

\* image files in LabelDir: stored height, width and EXIF orientation
ImageFiles ==
    (join(LabelDir, s_img_png) :> [h |-> 2, w |-> 3, orient |-> "normal"])
    @@ (join(LabelDir, s_rot_JPG) :> [h |-> 2, w |-> 3, orient |-> "rot90"])

\* a file that is not JSON (or JSON cut short by a failed dump)
Malformed == [t |-> "malformed"]

----------------------------------------------------------------------------
(* LabelFile.load *)

keys == {"version", "imageData", "imagePath", "shapes", "flags", "imageHeight",
         "imageWidth", "date", "latitude", "longitude"}

shape_keys == {"label", "points", "group_id", "shape_type", "flags", "description", "mask"}

\* PIL.Image.open failing is logged and answered with None
LoadImageFileLogs(filename) == filename \notin DOMAIN ImageFiles

load_image_file(filename) ==
    IF filename \notin DOMAIN ImageFiles THEN None
    ELSE LET image_pil == ApplyExifOrientation(ImageFiles[filename])
             ext == Lower(splitext(basename(filename))[2])
         IN  IF ext \in {s_jpg, s_jpeg} THEN Jpeg(image_pil.h, image_pil.w)
             ELSE Png(image_pil.h, image_pil.w)

\* returns Ok(<<imageHeight, imageWidth>>); a declared value that is not
\* None and differs from the array's is replaced (and the mismatch logged)
check_image_height_and_width(imageData, imageHeight, imageWidth) ==
    LET img_arr == ImgB64ToArr(imageData) IN
    IF ~img_arr.ok THEN img_arr
    ELSE Ok(<<IF imageHeight # None /\ IntV(img_arr.val.h) # imageHeight
              THEN IntV(img_arr.val.h) ELSE imageHeight,
              IF imageWidth # None /\ IntV(img_arr.val.w) # imageWidth
              THEN IntV(img_arr.val.w) ELSE imageWidth>>)

\* one element of the list comprehension over data["shapes"]
LoadShape(s) ==
    IF "label" \notin DOMAIN s \/ "points" \notin DOMAIN s THEN Raise("KeyError")
    ELSE LET mask == IF Truthy(Get(s, "mask", None))
                     THEN ImgB64ToArr(s.mask) ELSE Ok(None)
         IN  IF ~mask.ok THEN mask
             ELSE Ok([label |-> s.label,
                      points |-> s.points,
                      shape_type |-> Get(s, "shape_type", StrV(s_polygon)),
                      flags |-> Get(s, "flags", EmptyDict),
                      description |-> Get(s, "description", None),
                      group_id |-> Get(s, "group_id", None),
                      mask |-> mask.val,
                      other_data |-> Without(s, shape_keys)])

\* the image bytes load() settles on: embedded, or read from imagePath
LoadImageData(filename, data) ==
    IF "imageData" \notin DOMAIN data THEN Raise("KeyError")
    ELSE IF data.imageData # None THEN B64Decode(data.imageData)
    ELSE IF "imagePath" \notin DOMAIN data THEN Raise("KeyError")
    ELSE IF data.imagePath.t # "str" THEN Raise("TypeError")
    ELSE Ok(load_image_file(join(dirname(filename.path), data.imagePath.s)))

LoadLogsError(filename, data) ==
    /\ "imageData" \in DOMAIN data /\ data.imageData = None
    /\ "imagePath" \in DOMAIN data /\ data.imagePath.t = "str"
    /\ LoadImageFileLogs(join(dirname(filename.path), data.imagePath.s))

\* the try block of load(): Ok(the values to commit) or the exception that
\* load() wraps in LabelFileError
LoadTry(filename, fs) ==
    IF filename.path \notin DOMAIN fs THEN Raise("FileNotFoundError")
    ELSE IF fs[filename.path] = Malformed THEN Raise("JSONDecodeError")
    ELSE
    LET data == fs[filename.path]
        imageData == LoadImageData(filename, data)
    IN
    IF ~imageData.ok THEN imageData
    ELSE IF "imagePath" \notin DOMAIN data THEN Raise("KeyError")
    ELSE
    LET encoded == B64Encode(imageData.val)
        checked == IF encoded.ok
                   THEN check_image_height_and_width(encoded.val,
                            Get(data, "imageHeight", None), Get(data, "imageWidth", None))
                   ELSE encoded
    IN
    IF ~checked.ok THEN checked
    ELSE IF "shapes" \notin DOMAIN data THEN Raise("KeyError")
    ELSE
    LET shapes == [i \in 1..Len(data.shapes) |-> LoadShape(data.shapes[i])] IN
    IF \E i \in 1..Len(shapes) : ~shapes[i].ok
    THEN shapes[CHOOSE i \in 1..Len(shapes) :
                    ~shapes[i].ok /\ \A j \in 1..(i - 1) : shapes[j].ok]
    ELSE Ok([flags |-> IF Truthy(Get(data, "flags", None)) THEN data.flags ELSE EmptyDict,
             shapes |-> [i \in 1..Len(shapes) |-> shapes[i].val],
             imagePath |-> data.imagePath,
             imageData |-> imageData.val,
             filename |-> filename,
             otherData |-> Without(data, keys),
             date |-> Get(data, "date", None),
             latitude |-> Get(data, "latitude", None),
             longitude |-> Get(data, "longitude", None)])

\* a load() that clears the attributes before it parses
LoadCommitCleared(old, tried) ==
    IF tried.ok THEN tried.val
    ELSE [shapes |-> <<>>, imagePath |-> None, imageData |-> None, filename |-> None]

\* "Only replace data after everything is loaded": the attributes of the
\* LabelFile after load() returned or raised
LoadCommit(old, tried) == IF tried.ok THEN tried.val ELSE old

\* LabelFile(): the attributes __init__ sets without a filename
NewLabelFile == [shapes |-> <<>>, imagePath |-> None, imageData |-> None, filename |-> None]

----------------------------------------------------------------------------
(* LabelFile.save *)

\* labelme.__version__
Version == StrV(s_version)

\* seq[-k]
NegIndex(seq, k) == IF k <= Len(seq) THEN Ok(seq[Len(seq) - k + 1]) ELSE Raise("IndexError")

DefaultMeta ==
    [date |-> [year |-> StrV(<<>>), month |-> StrV(<<>>)],
     latitude |-> StrV(<<>>), longitude |-> StrV(<<>>)]

\* the derivation with the date read one token later (parts[-5])
DeriveMetaFifth(imagePath) ==
    LET parts == Split(splitext(imagePath.s)[1], "_")
        longitude == NegIndex(parts, 3)
        latitude == NegIndex(parts, 4)
        date_str == NegIndex(parts, 5)
    IN
    IF ~longitude.ok \/ ~latitude.ok \/ ~date_str.ok THEN DefaultMeta
    ELSE LET ym == Split(date_str.val, ".") IN
         IF Len(ym) # 2 THEN DefaultMeta
         ELSE [date |-> [year |-> StrV(ym[1]), month |-> StrV(ym[2])],
               latitude |-> StrV(latitude.val),
               longitude |-> StrV(longitude.val)]

\* the date, latitude and longitude save() reads from the image file name
DeriveMeta(imagePath) ==
    LET file_name_without_extension == splitext(imagePath.s)[1]
        parts == Split(file_name_without_extension, "_")
        longitude == NegIndex(parts, 3)
        latitude == NegIndex(parts, 4)
        date_str == NegIndex(parts, 6)
    IN
    IF ~longitude.ok \/ ~latitude.ok \/ ~date_str.ok THEN DefaultMeta
    ELSE LET ym == Split(date_str.val, ".") IN
         IF Len(ym) # 2 THEN DefaultMeta
         ELSE [date |-> [year |-> StrV(ym[1]), month |-> StrV(ym[2])],
               latitude |-> StrV(latitude.val),
               longitude |-> StrV(longitude.val)]

base_dir(filename) == basename(dirname(filename))

labeled_dir(filename) ==
    join(dirname(dirname(filename)), base_dir(filename) \o s_labeled)

new_filename(filename) == join(labeled_dir(filename), basename(filename))

labeled_formatted_dir(filename) ==
    join(dirname(dirname(filename)), base_dir(filename) \o s_labeled_formatted)

new_filename2(filename) == join(labeled_formatted_dir(filename), basename(filename))

\* imageData, imageHeight and imageWidth after lines 195-199
SaveImage(args) ==
    IF args.imageData = None
    THEN Ok([imageData |-> None, imageHeight |-> args.imageHeight,
             imageWidth |-> args.imageWidth])
    ELSE LET encoded == B64Encode(args.imageData)
             checked == IF encoded.ok
                        THEN check_image_height_and_width(encoded.val,
                                 args.imageHeight, args.imageWidth)
                        ELSE encoded
         IN  IF ~checked.ok THEN checked
             ELSE Ok([imageData |-> encoded.val, imageHeight |-> checked.val[1],
                      imageWidth |-> checked.val[2]])

SaveOtherData(args) == IF args.otherData = None THEN EmptyDict ELSE args.otherData

SaveFlags(args) == IF args.flags = None THEN EmptyDict ELSE args.flags

\* a merge without the assert, which keeps the dict's own value
MergeOtherDataUnchecked(data, otherData) ==
    Ok([k \in DOMAIN data \cup DOMAIN otherData |->
           IF k \in DOMAIN data THEN data[k] ELSE otherData[k]])

\* for key, value in otherData.items(): assert key not in data; data[key] = value
MergeOtherData(data, otherData) ==
    IF DOMAIN otherData \cap DOMAIN data # {} THEN Raise("AssertionError")
    ELSE Ok([k \in DOMAIN data \cup DOMAIN otherData |->
                IF k \in DOMAIN data THEN data[k] ELSE otherData[k]])

\* the canonical dict of lines 204-215
Data(args, img) ==
    MergeOtherData([version |-> Version,
                    flags |-> SaveFlags(args),
                    shapes |-> args.shapes,
                    imagePath |-> args.imagePath,
                    imageData |-> img.imageData,
                    imageHeight |-> img.imageHeight,
                    imageWidth |-> img.imageWidth],
                   SaveOtherData(args))

\* f"id_{base_dir}_{str(shape.get('group_id', 'unknown')).zfill(3)}"
LocationId(shape, dir) ==
    StrV(s_id \o dir \o <<"_">>
         \o ZFill(IF "group_id" \in DOMAIN shape THEN ToStr(shape.group_id) ELSE s_unknown, 3))

ShapeA(shape, dir) ==
    [k \in {"points", "shape_type", "class", "location_id"} |->
        CASE k = "points" -> Get(shape, "points", None)
          [] k = "shape_type" -> Get(shape, "shape_type", None)
          [] k = "class" -> Get(shape, "label", None)
          [] k = "location_id" -> LocationId(shape, dir)]

\* imageData if imageData else ""
ImageDataOrEmpty(imageData) == IF imageData # None THEN imageData ELSE StrV(<<>>)

\* the dict of lines 235-259
NewData(args, img) ==
    LET meta == DeriveMeta(args.imagePath) IN
    MergeOtherData([version |-> Version,
                    flags |-> SaveFlags(args),
                    shapes |-> [i \in 1..Len(args.shapes) |->
                                   ShapeA(args.shapes[i], base_dir(args.filename.path))],
                    imagePath |-> args.imagePath,
                    imageData |-> ImageDataOrEmpty(img.imageData),
                    imageHeight |-> img.imageHeight,
                    imageWidth |-> img.imageWidth,
                    date |-> meta.date,
                    latitude |-> meta.latitude,
                    longitude |-> meta.longitude],
                   SaveOtherData(args))

ShapeB(shape) ==
    [label |-> Get(shape, "label", None),
     points |-> Get(shape, "points", None),
     group_id |-> Get(shape, "group_id", StrV(s_unknown)),
     description |-> Get(shape, "description", StrV(<<>>)),
     shape_type |-> Get(shape, "shape_type", None),
     flags |-> Get(shape, "flags", EmptyDict)]

\* the dict of lines 280-303
NewData2(args, img) ==
    MergeOtherData([version |-> Version,
                    flags |-> SaveFlags(args),
                    shapes |-> [i \in 1..Len(args.shapes) |-> ShapeB(args.shapes[i])],
                    imagePath |-> args.imagePath,
                    imageData |-> ImageDataOrEmpty(img.imageData),
                    imageHeight |-> img.imageHeight,
                    imageWidth |-> img.imageWidth],
                   SaveOtherData(args))

\* a write that swallows its exception instead of raising LabelFileError
WriteJsonSwallowed(fs, ds, path, data, io) ==
    IF io \/ dirname(path) \notin ds THEN [fs |-> fs, res |-> Ok(None)]
    ELSE IF ~Serializable(data) THEN [fs |-> Put(fs, path, Malformed), res |-> Ok(None)]
    ELSE [fs |-> Put(fs, path, data), res |-> Ok(None)]

\* with open(path, "w") as f: json.dump(data, f, ...), inside try/except
\* Exception -> LabelFileError.  open() fails when the environment refuses
\* (io) or the directory is missing and leaves the file alone; a dump that
\* fails has already truncated the file.
WriteJson(fs, ds, path, data, io) ==
    IF io \/ dirname(path) \notin ds THEN [fs |-> fs, res |-> Raise("OSError")]
    ELSE IF ~Serializable(data) THEN [fs |-> Put(fs, path, Malformed), res |-> Raise("TypeError")]
    ELSE [fs |-> Put(fs, path, data), res |-> Ok(None)]

\* A save() call in progress: where it is, its arguments, whether
\* osp.exists() answered true at the last check, and how it ended: the
\* exception that left save(), the exception LabelFileError wraps, and the
\* step that raised.
Frame(pc, args) ==
    [pc |-> pc, args |-> args, exists |-> FALSE, exc |-> "", cause |-> "", at |-> ""]

Idle == [pc |-> "idle"]

Raised(c, exc, cause) ==
    [c EXCEPT !.pc = "raised", !.exc = exc, !.cause = cause, !.at = c.pc]

Goto(c, pc) == [c EXCEPT !.pc = pc]

\* lines 173-215: everything before the first write
Prepare(c) ==
    LET img == SaveImage(c.args) IN
    IF ~img.ok THEN Raised(c, img.exc, "")
    ELSE LET data == Data(c.args, img.val) IN
         IF ~data.ok THEN Raised(c, data.exc, "") ELSE Goto(c, "write1")

\* one step of a save() call: the call's frame, the files and the
\* directories after it.  io: the environment fails this step's open().
SaveStep(c, fs, ds, io) ==
    LET args == c.args
        filename == args.filename.path
        img == SaveImage(args).val
        same(c2) == [c |-> c2, fs |-> fs, ds |-> ds]
        write(path, data, next) ==
            IF ~data.ok THEN same(Raised(c, data.exc, ""))
            ELSE LET w == WriteJson(fs, ds, path, data.val, io) IN
                 [c |-> IF w.res.ok THEN Goto(c, next)
                        ELSE Raised(c, "LabelFileError", w.res.exc),
                  fs |-> w.fs, ds |-> ds]
        exists(dir, next) == same([c EXCEPT !.pc = next, !.exists = dir \in ds])
        makedirs(dir, next) ==
            IF c.exists THEN same(Goto(c, next))
            ELSE IF dir \in ds THEN same(Raised(c, "FileExistsError", ""))
            ELSE [c |-> Goto(c, next), fs |-> fs, ds |-> ds \cup {dir}]
    IN
    CASE c.pc = "prepare" -> same(Prepare(c))
      [] c.pc = "write1" -> write(filename, Data(args, img), "exists1")
      [] c.pc = "exists1" -> exists(labeled_dir(filename), "makedirs1")
      [] c.pc = "makedirs1" -> makedirs(labeled_dir(filename), "write2")
      [] c.pc = "write2" -> write(new_filename(filename), NewData(args, img), "exists2")
      [] c.pc = "exists2" -> exists(labeled_formatted_dir(filename), "makedirs2")
      [] c.pc = "makedirs2" -> makedirs(labeled_formatted_dir(filename), "write3")
      [] c.pc = "write3" -> write(new_filename2(filename), NewData2(args, img), "done")

WriteSteps == <<"write1", "write2", "write3">>

Ended(c) == c.pc \in {"done", "raised"}

\* a whole save() call run alone; fail: which of the three open() calls the
\* environment refuses (0: none)
RECURSIVE SaveRun(_, _, _, _)
SaveRun(c, fs, ds, fail) ==
    IF Ended(c) THEN [c |-> c, fs |-> fs, ds |-> ds]
    ELSE LET s == SaveStep(c, fs, ds, fail # 0 /\ c.pc = WriteSteps[fail])
         IN  SaveRun(s.c, s.fs, s.ds, fail)

----------------------------------------------------------------------------
(* Inputs: label files, shape lists and save() arguments *)

\* a key of a label file: there with a value, or not there
Some(v) == [some |-> TRUE, v |-> v]

Absent == [some |-> FALSE]

\* the dict of the keys that are there
MkDict(fields) == [k \in {x \in DOMAIN fields : fields[x].some} |-> fields[k].v]

\* [[1, 2], [3, 4]]
Pts == <<<<1, 2>>, <<3, 4>>>>

sFull ==
    [label |-> StrV(s_cat), points |-> Pts, group_id |-> IntV(5),
     shape_type |-> StrV(s_rectangle), flags |-> [occluded |-> TRUE],
     description |-> StrV(s_kept), mask |-> None]

sMin == [label |-> StrV(s_dog), points |-> Pts]

sExtra == [label |-> StrV(s_dog), points |-> Pts, extra |-> StrV(s_kept)]

sNullGid == [label |-> StrV(s_dog), points |-> Pts, group_id |-> None]

sBigGid == [label |-> StrV(s_dog), points |-> Pts, group_id |-> IntV(1234)]

sNoLabel == [points |-> Pts]

sMask == [label |-> StrV(s_dog), points |-> Pts, mask |-> B64Encode(Png(1, 1)).val]

sBadMask == [label |-> StrV(s_dog), points |-> Pts, mask |-> StrV(s_abc)]

\* data["shapes"] of the label files
FileShapes ==
    <<Absent, Some(<<>>), Some(<<sFull>>), Some(<<sExtra>>), Some(<<sNullGid, sFull>>),
      Some(<<sNoLabel>>), Some(<<sMask>>), Some(<<sFull, sBadMask>>)>>

\* data["imageData"]: missing, null, an image, bytes that are no image, text
\* that is not base64
FileImageData ==
    <<Absent, Some(None), Some(B64Encode(Png(2, 3)).val), Some(B64Encode(RawBytes).val),
      Some(StrV(s_abc))>>

FileImagePath == <<Absent, Some(StrV(s_img_png)), Some(StrV(s_rot_JPG)), Some(StrV(s_gone_png))>>

DateDict == [year |-> StrV(<<"2", "0", "1", "8">>), month |-> StrV(<<"1", "1">>)]

\* imageHeight, imageWidth, flags, date/latitude/longitude, an unrecognized key
FileRest ==
    <<[imageHeight |-> Some(IntV(2)), imageWidth |-> Some(IntV(3)),
       flags |-> Some([checked |-> TRUE]), date |-> Some(DateDict),
       latitude |-> Some(StrV(<<"3", "7", ".", "5">>)),
       longitude |-> Some(StrV(<<"1", "2", "7", ".", "0">>)), note |-> Some(StrV(s_kept))],
      [imageHeight |-> Absent, imageWidth |-> Absent, flags |-> Some(None),
       date |-> Absent, latitude |-> Absent, longitude |-> Absent, note |-> Absent],
      [imageHeight |-> Some(IntV(9)), imageWidth |-> Some(IntV(3)), flags |-> Absent,
       date |-> Absent, latitude |-> Absent, longitude |-> Absent,
       note |-> Some(StrV(s_kept))],
      [imageHeight |-> Some(IntV(2)), imageWidth |-> Absent, flags |-> Some(EmptyDict),
       date |-> Some(DateDict), latitude |-> Absent, longitude |-> Absent,
       note |-> Absent]>>

LabelFileDoc(i, p, s, r) ==
    MkDict([version |-> Some(Version), imageData |-> FileImageData[i],
            imagePath |-> FileImagePath[p], shapes |-> FileShapes[s],
            flags |-> FileRest[r].flags, imageHeight |-> FileRest[r].imageHeight,
            imageWidth |-> FileRest[r].imageWidth, date |-> FileRest[r].date,
            latitude |-> FileRest[r].latitude, longitude |-> FileRest[r].longitude,
            note |-> FileRest[r].note])

\* a file name as the Python str the caller passes
FileName(path) == [t |-> "str", path |-> path]

FileA == join(LabelDir, s_a_json)

FileB == join(LabelDir, s_b_json)

FileGone == join(LabelDir, s_gone_json)

LoadNames == {FileName(FileA), FileName(FileB), FileName(FileGone)}

\* a label file every load() accepts
GoodDoc == LabelFileDoc(3, 2, 3, 1)

----------------------------------------------------------------------------
(* State *)

Procs == {1, 2}

\* how many load() / save() calls a behaviour of Spec makes
MaxOps == 3

NoOutcome == [op |-> "none"]

----------------------------------------------------------------------------
(* Actions run by one caller, a call at a time *)

\* self.load(filename)
Load(filename) ==
    /\ budget > 0
    /\ LET tried == LoadTry(filename, disk) IN
       /\ rec' = LoadCommit(rec, tried)
       /\ outcome' = [op |-> "load", filename |-> filename,
                      status |-> IF tried.ok THEN "ok" ELSE "LabelFileError",
                      cause |-> IF tried.ok THEN "" ELSE tried.exc,
                      logged |-> /\ filename.path \in DOMAIN disk
                                 /\ disk[filename.path] # Malformed
                                 /\ LoadLogsError(filename, disk[filename.path])]
    /\ budget' = budget - 1
    /\ UNCHANGED <<disk, dirs, calls>>

\* self.save(...) run to its end; save() reads no attribute of the LabelFile
\* and sets none
Save(args, fail) ==
    /\ budget > 0
    /\ LET r == SaveRun(Frame("prepare", args), disk, dirs, fail) IN
       /\ disk' = r.fs
       /\ dirs' = r.ds
       /\ outcome' = [op |-> "save", args |-> args, fail |-> fail,
                      status |-> IF r.c.pc = "done" THEN "ok" ELSE r.c.exc,
                      cause |-> r.c.cause]
    /\ budget' = budget - 1
    /\ UNCHANGED <<rec, calls>>

Loaded == "flags" \in DOMAIN rec

\* the caller's imageHeight and imageWidth: not given, or the numbers it holds
CallerDims == <<[h |-> None, w |-> None], [h |-> IntV(2), w |-> IntV(3)]>>

\* save() of what load() left in the LabelFile
OwnArgs(d, withImage) ==
    [filename |-> rec.filename, shapes |-> rec.shapes, imagePath |-> rec.imagePath,
     imageHeight |-> CallerDims[d].h, imageWidth |-> CallerDims[d].w,
     imageData |-> IF withImage THEN rec.imageData ELSE None,
     otherData |-> rec.otherData, flags |-> rec.flags]

\* with every open() granted, or, for the call that passes its numbers and
\* its image, with one of the three open() calls refused
SaveLoaded ==
    /\ Loaded
    /\ \E d \in 1..Len(CallerDims), withImage \in BOOLEAN, fail \in 0..3 :
           /\ fail # 0 => (d = 2 /\ withImage)
           /\ Save(OwnArgs(d, withImage), fail)

Init ==
    /\ \E i \in 1..Len(FileImageData), p \in 1..Len(FileImagePath),
          s \in 1..Len(FileShapes), r \in 1..Len(FileRest) :
           disk = (FileA :> LabelFileDoc(i, p, s, r)) @@ (FileB :> GoodDoc)
    /\ dirs = {RootDir, LabelDir}
    /\ rec = NewLabelFile
    /\ outcome = NoOutcome
    /\ budget = MaxOps
    /\ calls = [p \in Procs |-> Idle]

Next ==
    \/ \E f \in LoadNames : Load(f)
    \/ SaveLoaded

Spec == Init /\ [][Next]_vars

----------------------------------------------------------------------------
(* save() on arguments of the caller's own making, one call per behaviour *)

s_example == <<"r", "e", "g", "i", "o", "n", "_", "2", "0", "1", "8", ".", "1", "1", "_", "3", "7", ".", "5", "_", "1", "2", "7", ".", "0", "_", "e", "x", "t", "r", "a", "_", "e", "x", "t", "r", "a", ".", "p", "n", "g">>

s_example_shifted == <<"2", "0", "1", "8", ".", "1", "1", "_", "r", "e", "g", "i", "o", "n", "_", "3", "7", ".", "5", "_", "1", "2", "7", ".", "0", "_", "e", "x", "t", "r", "a", "_", "e", "x", "t", "r", "a", ".", "p", "n", "g">>

\* the tokens image file names are built from: YEAR.MONTH, a plain word, and
\* a token with two dots
Tokens == <<<<"2", "0", "1", "8", ".", "1", "1">>, <<"r">>, <<"1", ".", "2", ".", "3">>>>

\* the longest image file name, in tokens
MaxTokens == 6

RECURSIVE JoinTokens(_)
JoinTokens(ix) ==
    IF Len(ix) = 1 THEN Tokens[ix[1]]
    ELSE Tokens[ix[1]] \o <<"_">> \o JoinTokens(Tail(ix))

\* imagePath values: the documented example, the example with the date one
\* token earlier, and every name of up to MaxTokens tokens
MetaPaths ==
    {StrV(s_example), StrV(s_example_shifted)}
    \cup {StrV(JoinTokens(ix) \o s_png) :
             ix \in UNION {[1..n -> 1..Len(Tokens)] : n \in 1..MaxTokens}}

\* a shape as the caller holds it after load(), and one with a decoded mask
sLoadedNullGid == LoadShape(sNullGid).val

sArr == [label |-> StrV(s_dog), points |-> Pts, mask |-> NdArray(1, 1)]

CallerShapes == <<<<>>, <<sFull, sMin>>, <<sLoadedNullGid, sBigGid>>, <<sMin, sArr>>>>

CallerImageData == <<None, Png(2, 3), RawBytes>>

CallerSizes == <<None, IntV(2), IntV(9)>>

CallerFlags == <<None, [checked |-> TRUE]>>

\* keys an otherData mapping may hold: the seven of the canonical dict, the
\* three more of the first derived dict, and one that is in neither
OtherKeys ==
    <<"version", "flags", "shapes", "imagePath", "imageData", "imageHeight",
      "imageWidth", "date", "latitude", "longitude", "note">>

\* otherData: None or {} (k = 0), or a mapping with the k-th key, alone or
\* after another key
OtherData(k, more) ==
    IF k = 0 THEN (IF more THEN EmptyDict ELSE None)
    ELSE [x \in {OtherKeys[k]} \cup (IF more THEN {"comment"} ELSE {}) |-> StrV(s_kept)]

CallerArgs(s, h, im, k, more, fl) ==
    [filename |-> FileName(FileA), shapes |-> CallerShapes[s], imagePath |-> StrV(s_img_png),
     imageHeight |-> CallerSizes[h], imageWidth |-> IntV(3),
     imageData |-> CallerImageData[im], otherData |-> OtherData(k, more),
     flags |-> CallerFlags[fl]]

MetaArgs(ip) ==
    [filename |-> FileName(FileA), shapes |-> <<sMin>>, imagePath |-> ip,
     imageHeight |-> IntV(2), imageWidth |-> IntV(3), imageData |-> None,
     otherData |-> None, flags |-> None]

\* the directory tree before the call: bare, or holding an earlier save
BareDisk == FileB :> GoodDoc

BareDirs == {RootDir, LabelDir}

SavedDisk ==
    (FileA :> GoodDoc) @@ (FileB :> GoodDoc) @@ (new_filename(FileA) :> GoodDoc)
    @@ (new_filename2(FileA) :> GoodDoc)

SavedDirs == BareDirs \cup {labeled_dir(FileA), labeled_formatted_dir(FileA)}

\* a save() call run to its end
RunSave(p) ==
    /\ calls[p].pc = "prepare"
    /\ \E fail \in 0..3 :
           LET r == SaveRun(calls[p], disk, dirs, fail) IN
           /\ calls' = [calls EXCEPT ![p] = r.c]
           /\ disk' = r.fs
           /\ dirs' = r.ds
    /\ UNCHANGED <<rec, outcome, budget>>

InitSave ==
    /\ \E saved \in BOOLEAN :
           /\ disk = IF saved THEN SavedDisk ELSE BareDisk
           /\ dirs = IF saved THEN SavedDirs ELSE BareDirs
    /\ \/ \E s \in 1..Len(CallerShapes), h \in 1..Len(CallerSizes),
             im \in 1..Len(CallerImageData), k \in 0..Len(OtherKeys), more \in BOOLEAN,
             fl \in 1..Len(CallerFlags) :
              calls = [p \in Procs |->
                          IF p = 1 THEN Frame("prepare", CallerArgs(s, h, im, k, more, fl))
                          ELSE Idle]
       \/ \E ip \in MetaPaths :
              calls = [p \in Procs |-> IF p = 1 THEN Frame("prepare", MetaArgs(ip)) ELSE Idle]
    /\ rec = NewLabelFile
    /\ outcome = NoOutcome
    /\ budget = 0

NextSave == \E p \in Procs : RunSave(p)

SpecSave == InitSave /\ [][NextSave]_vars

----------------------------------------------------------------------------
(* Two save() calls at once, a file-system call at a time *)

ConcArgs(name, s, k) ==
    [filename |-> FileName(name), shapes |-> CallerShapes[s], imagePath |-> StrV(s_img_png),
     imageHeight |-> IntV(2), imageWidth |-> IntV(3), imageData |-> None,
     otherData |-> OtherData(k, FALSE), flags |-> None]

\* shape lists and otherData of the concurrent calls: plain ones, a mask
\* json.dump refuses, a key the first derived dict already has
ConcShapes == {2, 4}

ConcOther == {0, 8}

\* one step of a save() call; at an open() the environment may refuse
StepSave(p) ==
    /\ calls[p].pc \notin {"idle", "done", "raised"}
    /\ \E io \in IF calls[p].pc \in {"write1", "write2", "write3"} THEN BOOLEAN ELSE {FALSE} :
           LET s == SaveStep(calls[p], disk, dirs, io) IN
           /\ calls' = [calls EXCEPT ![p] = s.c]
           /\ disk' = s.fs
           /\ dirs' = s.ds
    /\ UNCHANGED <<rec, outcome, budget>>

InitConc ==
    /\ disk = BareDisk
    /\ \E made \in SUBSET {labeled_dir(FileA), labeled_formatted_dir(FileA)} :
           dirs = BareDirs \cup made
    /\ \E name2 \in {FileA, FileB}, s1 \in ConcShapes, s2 \in ConcShapes,
          k1 \in ConcOther, k2 \in ConcOther :
           calls = [p \in Procs |->
                       IF p = 1 THEN Frame("prepare", ConcArgs(FileA, s1, k1))
                       ELSE Frame("prepare", ConcArgs(name2, s2, k2))]
    /\ rec = NewLabelFile
    /\ outcome = NoOutcome
    /\ budget = 0

NextConc == \E p \in Procs : StepSave(p)

SpecConc == InitConc /\ [][NextConc]_vars

----------------------------------------------------------------------------
(* Properties *)

\* the file a load() that just ran has read (load() writes nothing)
LoadedFile == disk[outcome.filename.path]

JustLoaded == outcome.op = "load" /\ outcome.filename.path \in DOMAIN disk

\* C1: load() of a JSON file whose imageData is null and whose imagePath
\* names an image that cannot be opened (and that has no other defect: it
\* loads once an image is embedded) returns normally with image data absent
\* and an error logged; it does not raise LabelFileError.
C1_LoadWithoutImageSucceeds ==
    (/\ JustLoaded
     /\ LoadedFile # Malformed
     /\ "imageData" \in DOMAIN LoadedFile /\ LoadedFile.imageData = None
     /\ "imagePath" \in DOMAIN LoadedFile
     /\ join(LabelDir, LoadedFile.imagePath.s) \notin DOMAIN ImageFiles
     /\ LoadTry(outcome.filename,
                Put(disk, outcome.filename.path,
                    Put(LoadedFile, "imageData", B64Encode(Png(2, 3)).val))).ok)
    => (outcome.status = "ok" /\ rec.imageData = None /\ outcome.logged)

\* a label file with one of the defects load() must reject: not JSON, a
\* required key missing, imageData that is not base64 or not an image, a
\* shape without label, a mask that does not decode
Defective(doc) ==
    \/ doc = Malformed
    \/ {"imageData", "imagePath", "shapes"} \ DOMAIN doc # {}
    \/ doc.imageData = StrV(s_abc)
    \/ doc.imageData = B64Encode(RawBytes).val
    \/ \E i \in 1..Len(doc.shapes) :
           \/ "label" \notin DOMAIN doc.shapes[i]
           \/ "mask" \in DOMAIN doc.shapes[i] /\ doc.shapes[i].mask = StrV(s_abc)

\* C2: load() replaces the LabelFile's state atomically.  A load() that
\* fails (a missing or defective file among them) raises LabelFileError and
\* leaves every attribute as it was; the attributes change only in a load()
\* that succeeds, and then to what that file holds; save() changes none.
C2_LoadAtomic ==
    [][/\ (outcome'.op = "load" /\ budget' # budget) =>
            /\ outcome'.status \in {"ok", "LabelFileError"}
            /\ (outcome'.filename.path \notin DOMAIN disk
                \/ Defective(disk[outcome'.filename.path])) =>
                   outcome'.status = "LabelFileError"
            /\ outcome'.status = "LabelFileError" => rec' = rec
            /\ outcome'.status = "ok" =>
                   /\ DOMAIN rec' = {"flags", "shapes", "imagePath", "imageData",
                                     "filename", "otherData", "date", "latitude",
                                     "longitude"}
                   /\ rec'.filename = outcome'.filename
                   /\ rec'.imagePath = disk[outcome'.filename.path].imagePath
                   /\ Len(rec'.shapes) = Len(disk[outcome'.filename.path].shapes)
       /\ (outcome'.op = "save" /\ budget' # budget) => rec' = rec
       /\ rec' # rec => (outcome'.op = "load" /\ outcome'.status = "ok")]_vars

\* C2 witness: a LabelFile holding a loaded state went through a load()
\* that failed on an image that does not decode
C2_Witness ==
    /\ Loaded
    /\ outcome.op = "load" /\ outcome.status = "LabelFileError"
    /\ outcome.cause = "UnidentifiedImageError"
    /\ rec.filename # outcome.filename

\* the call of a behaviour of SpecSave, its arguments and the three files
TheCall == calls[1]

TheArgs == TheCall.args

FileA1 == new_filename(FileA)

FileA2 == new_filename2(FileA)

\* the stem of an image path, in tokens
StemTokens(imagePath) == Split(splitext(imagePath.s)[1], "_")

MetaOf(doc) == [date |-> doc.date, latitude |-> doc.latitude, longitude |-> doc.longitude]

ExampleMeta ==
    [date |-> [year |-> StrV(<<"2", "0", "1", "8">>), month |-> StrV(<<"1", "1">>)],
     latitude |-> StrV(<<"3", "7", ".", "5">>),
     longitude |-> StrV(<<"1", "2", "7", ".", "0">>)]

EmptyMeta ==
    [date |-> [year |-> StrV(<<>>), month |-> StrV(<<>>)],
     latitude |-> StrV(<<>>), longitude |-> StrV(<<>>)]

\* C3 as claimed: for the stem region_2018.11_37.5_127.0_extra_extra save()
\* derives 2018 / 11 / 37.5 / 127.0, and for every stem of fewer than 6
\* tokens it derives empty values.
C3_ExampleDerivesDate ==
    TheCall.pc = "done" =>
        /\ TheArgs.imagePath = StrV(s_example) => MetaOf(disk[FileA1]) = ExampleMeta
        /\ Len(StemTokens(TheArgs.imagePath)) < 6 => MetaOf(disk[FileA1]) = EmptyMeta

\* C3 amended: for the stem region_2018.11_37.5_127.0_extra_extra save()
\* derives empty values (its 6th-from-last token is "region"); it derives
\* 2018 / 11 / 37.5 / 127.0 for 2018.11_region_37.5_127.0_extra_extra, whose
\* 6th-from-last token is the date; and for every stem of fewer than 6
\* tokens it derives empty values.
C3_DateIsSixthFromLast ==
    TheCall.pc = "done" =>
        /\ TheArgs.imagePath = StrV(s_example) => MetaOf(disk[FileA1]) = EmptyMeta
        /\ TheArgs.imagePath = StrV(s_example_shifted) => MetaOf(disk[FileA1]) = ExampleMeta
        /\ Len(StemTokens(TheArgs.imagePath)) < 6 => MetaOf(disk[FileA1]) = EmptyMeta

\* C3 witness: save() ran on the documented example and wrote empty values
C3_Witness ==
    /\ TheCall.pc = "done"
    /\ TheArgs.imagePath = StrV(s_example)
    /\ MetaOf(disk[FileA1]) = EmptyMeta

\* C4: after a save() that is given image bytes, the imageHeight and
\* imageWidth written to the three files are the height and width of the
\* decoded image, whatever the declared values, absent ones included.
C4_WrittenSizeIsImageSize ==
    (TheCall.pc = "done" /\ TheArgs.imageData # None) =>
        \A f \in {FileA, FileA1, FileA2} :
            /\ disk[f].imageHeight = IntV(TheArgs.imageData.h)
            /\ disk[f].imageWidth = IntV(TheArgs.imageData.w)

\* a save() that just ran in Spec with the LabelFile's own attributes, the
\* LabelFile holding what load() makes of the file save() is about to replace
OwnSaveStep ==
    /\ outcome'.op = "save" /\ budget' # budget /\ outcome'.status = "ok"
    /\ Loaded
    /\ LoadTry(rec.filename, disk) = Ok(rec)
    /\ outcome'.args.shapes = rec.shapes
    /\ outcome'.args.otherData = rec.otherData

RecognizedKeys ==
    {"flags", "shapes", "imagePath", "imageHeight", "imageWidth", "date", "latitude",
     "longitude"}

\* the recognized fields the original shape carries are in the saved shape
SameShape(saved, original) ==
    \A k \in DOMAIN original \cap shape_keys : k \in DOMAIN saved /\ saved[k] = original[k]

\* C5: load() then save() of the loaded shapes, imagePath, flags and
\* otherData writes a canonical file whose recognized fields, the date,
\* latitude and longitude the source carried among them, equal the original's.
C5_RoundTrip ==
    [][OwnSaveStep =>
          LET original == disk[rec.filename.path]
              saved == disk'[rec.filename.path]
          IN  \A k \in (DOMAIN original \cap RecognizedKeys) \ {"imageHeight", "imageWidth"} :
                  /\ k \in DOMAIN saved
                  /\ IF k = "shapes"
                     THEN /\ Len(saved.shapes) = Len(original.shapes)
                          /\ \A i \in 1..Len(original.shapes) :
                                 SameShape(saved.shapes[i], original.shapes[i])
                     ELSE IF k = "flags"
                     THEN saved.flags = (IF Truthy(original.flags) THEN original.flags
                                         ELSE EmptyDict)
                     ELSE saved[k] = original[k]]_vars

\* C6: every unrecognized top-level key and every unrecognized shape-level
\* key of the input is, after load() then save(), in the canonical output at
\* the same level under the same key with the same value.
C6_OtherDataSameLevel ==
    [][OwnSaveStep =>
          LET original == disk[rec.filename.path]
              saved == disk'[rec.filename.path]
          IN  /\ \A k \in DOMAIN original \ keys : k \in DOMAIN saved /\ saved[k] = original[k]
              /\ \A i \in 1..Len(original.shapes) :
                     \A k \in DOMAIN original.shapes[i] \ shape_keys :
                         /\ k \in DOMAIN saved.shapes[i]
                         /\ saved.shapes[i][k] = original.shapes[i][k]]_vars

CanonicalKeys ==
    {"version", "flags", "shapes", "imagePath", "imageData", "imageHeight", "imageWidth"}

CollidesCanonical(otherData) ==
    otherData # None /\ DOMAIN otherData \cap CanonicalKeys # {}

\* C7: a save() whose otherData holds a key of the canonical dict fails
\* before any of the three files is written and before any directory is
\* created.
C7_CollisionRejected ==
    [][\A p \in Procs :
          (/\ calls[p].pc = "prepare"
           /\ calls'[p] # calls[p]
           /\ CollidesCanonical(calls[p].args.otherData))
          => (calls'[p].pc = "raised" /\ disk' = disk /\ dirs' = dirs)]_vars

\* C7 witness: save() with a "shapes" key in otherData raised AssertionError
\* in a bare tree, and the tree is still bare
C7_Witness ==
    /\ TheCall.pc = "raised" /\ TheCall.exc = "AssertionError"
    /\ TheArgs.otherData # None /\ "shapes" \in DOMAIN TheArgs.otherData
    /\ disk = BareDisk /\ dirs = BareDirs

\* the file a write step writes
Target(c) ==
    CASE c.pc = "write1" -> c.args.filename.path
      [] c.pc = "write2" -> new_filename(c.args.filename.path)
      [] c.pc = "write3" -> new_filename2(c.args.filename.path)

WritePcs == {"write1", "write2", "write3"}

\* C8 as claimed: a failure of one write step aborts only that step and the
\* other write steps are still attempted: after the first or the second
\* write step, failed or not, the call goes on to the next step.
C8_WritesIndependent ==
    [][\A p \in Procs :
          (calls[p].pc \in {"write1", "write2"} /\ calls'[p] # calls[p])
          => calls'[p].pc \in {"exists1", "exists2"}]_vars

\* C8 amended: a failure of a write step raises out of save() and ends the
\* call (a failed open() or dump as LabelFileError): the steps after it are
\* not attempted.  No step removes or rolls back a file or a directory: a
\* step changes at most the file it writes.
C8_FailureEndsCall ==
    [][\A p \in Procs :
          /\ calls[p].pc = "raised" => calls'[p] = calls[p]
          /\ (/\ calls[p].pc = "write1" /\ calls'[p] # calls[p]
              /\ \E i \in 1..Len(calls[p].args.shapes) :
                     /\ "mask" \in DOMAIN calls[p].args.shapes[i]
                     /\ calls[p].args.shapes[i].mask = NdArray(1, 1))
             => /\ calls'[p].pc = "raised"
                /\ calls'[p].exc = "LabelFileError"
                /\ calls'[p].at = "write1"
          /\ (calls[p].pc \in WritePcs /\ calls'[p].pc = "raised")
             => /\ calls'[p].exc \in {"LabelFileError", "AssertionError"}
                /\ dirs' = dirs
          /\ (calls[p].pc \in WritePcs /\ calls'[p] # calls[p])
             => \A f \in DOMAIN disk :
                    f \in DOMAIN disk' /\ (f # Target(calls[p]) => disk'[f] = disk[f])
          /\ dirs \subseteq dirs'
          /\ DOMAIN disk \subseteq DOMAIN disk']_vars

\* C8 witness: a call failed in its second write step with LabelFileError;
\* the canonical file it wrote before is there, the second file is not
C8_Witness ==
    /\ calls[1].pc = "raised" /\ calls[1].at = "write2"
    /\ calls[1].exc = "LabelFileError"
    /\ calls[2].pc = "prepare"
    /\ FileA \in DOMAIN disk /\ disk[FileA].shapes = calls[1].args.shapes
    /\ FileA1 \notin DOMAIN disk

HasGroupId(shape) == "group_id" \in DOMAIN shape /\ shape.group_id # None

\* C9: in the first derived file every shape has exactly the keys points,
\* shape_type, class and location_id, class is the shape's label, and
\* location_id is id_<parentDirName>_ followed by the group id padded to 3
\* digits when the shape has a group id and by "unknown" when it has none.
C9_LocationId ==
    (outcome.op = "save" /\ outcome.status = "ok") =>
        LET dir == base_dir(outcome.args.filename.path)
            out == disk[new_filename(outcome.args.filename.path)].shapes
        IN  /\ Len(out) = Len(outcome.args.shapes)
            /\ \A i \in 1..Len(out) :
                   LET shape == outcome.args.shapes[i] IN
                   /\ DOMAIN out[i] = {"points", "shape_type", "class", "location_id"}
                   /\ out[i]["class"] = shape.label
                   /\ out[i].location_id =
                          StrV(s_id \o dir \o <<"_">>
                               \o (IF HasGroupId(shape)
                                   THEN ZFill(IntToStr(shape.group_id.n), 3)
                                   ELSE s_unknown))

\* C10: no save() call fails because a directory it found missing was
\* created by the other call before its own makedirs.
C10_DirectoryRaceTolerated ==
    \A p \in Procs : calls[p].pc = "raised" => calls[p].exc # "FileExistsError"

====
